---- MODULE Spec2Model ----
(***************************************************************************)
(* Model of the "VRM Material Hide Shape Key" addon                        *)
(* (src/vrm_hidematblenshape.py).                                          *)
(*                                                                         *)
(* The state is one mesh object of the host scene: its material slot list, *)
(* the material index of its faces, its live vertex coordinates, its shape *)
(* keys and its vrm_hide_materials collection, plus the outcome and the    *)
(* locals of the operator that ran last.  The two operators                *)
(* (SyncMaterialsOperator.execute, CreateHideOperator.execute) are atomic  *)
(* actions: the host runs them synchronously on one thread.                *)
(*                                                                         *)
(* Coordinates.  mathutils.Vector arithmetic is componentwise, so one      *)
(* component is modelled.  A component is a binary floating-point number:  *)
(* the model keeps the rounding of every operation and shortens only the   *)
(* significand, to Prec bits (the host uses 24); values are integers in    *)
(* units of the smallest representable step, and there is no overflow.     *)
(***************************************************************************)
EXTENDS Integers, Sequences, FiniteSets, TLC

\* ------------------------------------------------------------------------
\* Bounds
\* ------------------------------------------------------------------------
NV == 3          \* vertices of the mesh
MaxSlots == 2    \* longest material slot list
Prec == 3        \* bits of the significand of a coordinate

\* ------------------------------------------------------------------------
\* Floating-point arithmetic on one Vector component
\* ------------------------------------------------------------------------
RECURSIVE Pow2(_)
Pow2(k) == IF k <= 0 THEN 1 ELSE 2 * Pow2(k - 1)

Abs(x) == IF x < 0 THEN -x ELSE x

Sgn(x) == IF x < 0 THEN -1 ELSE 1

\* a / b rounded to the nearest integer, ties to the even one (a >= 0, b > 0)
RoundHalfEven(a, b) ==
    LET f == a \div b
        r == a % b
    IN  IF 2 * r < b THEN f
        ELSE IF 2 * r > b THEN f + 1
        ELSE IF f % 2 = 0 THEN f ELSE f + 1

\* the spacing of representable values around a / d (a >= 0, d > 0)
RECURSIVE UlpFor(_, _, _)
UlpFor(a, d, u) == IF a < Pow2(Prec) * u * d THEN u ELSE UlpFor(a, d, 2 * u)

\* the representable value nearest to the rational n / d (d > 0)
Rnd(n, d) ==
    LET a == Abs(n)
        u == UlpFor(a, d, 1)
    IN  Sgn(n) * RoundHalfEven(a, d * u) * u

FAdd(x, y) == Rnd(x + y, 1)

FSub(x, y) == Rnd(x - y, 1)

\* Vector * float: f is the rational f.num / f.den
FMul(x, f) == Rnd(x * f.num, f.den)

\* Vector / int
FDiv(x, n) == Rnd(x, n)

\* ------------------------------------------------------------------------
\* Domains of the inputs
\* ------------------------------------------------------------------------
NoMat == 0                      \* an empty slot / a None pointer
Mats == {1, 2}                  \* material datablocks
Verts == 1 .. NV

\* topology: face f joins these vertices (bmesh face.verts, by vert.index)
FaceVerts == <<{1, 2}, {2, 3}>>
Faces == 1 .. Len(FaceVerts)
MatIndex == {0, 1}              \* face.material_index values in use

Big == 5 * Pow2(Prec - 1)
PosVals == {-1, Big}            \* coordinates of the vertices at start

SlotLists == UNION {[1 .. n -> Mats \cup {NoMat}] : n \in 0 .. MaxSlots}

ObjKinds == {"NONE", "OTHER", "MESH"}   \* context.active_object

Hidden == <<"H", "i", "d", "d", "e", "n">>
Basis == <<"B", "a", "s", "i", "s">>
NameInputs == {<<>>, <<" ", " ">>, <<" ", "a", " ", "b", " ">>, Hidden}

Factors == {[num |-> 0, den |-> 1], [num |-> 1, den |-> 2], [num |-> 1, den |-> 1]}
CenterModes == {"CENTROID", "ORIGIN"}

\* the orders in which a set can be iterated
Orders(S) == {s \in [1 .. Cardinality(S) -> S] :
                 \A i, j \in 1 .. Cardinality(S) : i # j => s[i] # s[j]}

VARIABLES
    materials,          \* obj.data.materials: slot list, NoMat = empty slot
    face_mat,           \* face.material_index of every face (0-based)
    co,                 \* obj.data.vertices[i].co, the live coordinates
    shape_keys,         \* obj.data.shape_keys key blocks, in order
    vrm_hide_materials, \* obj.vrm_hide_materials: [material, use_hide]
    op,                 \* operator that ran last: "none", "sync", "create"
    result,             \* its return value
    report,             \* its self.report
    frame               \* its locals when it returned

vars == <<materials, face_mat, co, shape_keys, vrm_hide_materials,
          op, result, report, frame>>

NoFrame == [obj |-> "NONE"]
NoReport == [type |-> "NONE", msg |-> ""]

\* ------------------------------------------------------------------------
\* Messages
\* ------------------------------------------------------------------------
MsgSelectMesh == "Select a mesh object."
MsgHasKeys == "Object already has shape keys. Remove them first (this addon resets the basis)."
MsgNoMaterials == "No materials selected for hide."
MsgNoVertices == "No vertices found for selected materials."
MsgUpdated == "Material list updated"
MsgCreated == "Hide shape key created"

Error(m) == [type |-> "ERROR", msg |-> m]
Info(m, a) == [type |-> "INFO", msg |-> m, arg |-> a]

\* ------------------------------------------------------------------------
\* sync_material_list
\* ------------------------------------------------------------------------
NotMesh(obj) == obj = "NONE" \/ obj # "MESH"

RECURSIVE SyncAppend(_, _)
SyncAppend(items, mats) ==
    IF mats = <<>> THEN items
    ELSE SyncAppend(IF Head(mats) # NoMat
                    THEN Append(items, [material |-> Head(mats), use_hide |-> TRUE])
                    ELSE items,
                    Tail(mats))

\* faulty variant: the collection is not cleared first
SyncWithoutClear(items, mats) == SyncAppend(items, mats)

sync_material_list(items, mats) == SyncAppend(<<>>, mats)

\* ------------------------------------------------------------------------
\* CreateHideOperator.execute, the pure parts
\* ------------------------------------------------------------------------
\* faulty variant: a single existing key is let through
HasSeveralShapeKeys(keys) == Len(keys) > 1

\* faulty variant: the existing-keys test is dropped
HasShapeKeysNever(keys) == FALSE

HasShapeKeys(keys) == Len(keys) > 0

\* faulty variant: the use_hide flag is ignored
CheckedIgnoringFlag(items) ==
    {i - 1 : i \in {j \in 1 .. Len(items) : items[j].material # NoMat}}

\* 0-based indices of the collection entries that are checked and non-null
CheckedIndices(items) ==
    {i - 1 : i \in {j \in 1 .. Len(items) :
                       items[j].use_hide /\ items[j].material # NoMat}}

IsSpace(c) == c = " "

RECURSIVE LStrip(_)
LStrip(s) == IF s = <<>> THEN s
             ELSE IF IsSpace(Head(s)) THEN LStrip(Tail(s)) ELSE s

RECURSIVE RStrip(_)
RStrip(s) == IF s = <<>> THEN s
             ELSE IF IsSpace(s[Len(s)]) THEN RStrip(SubSeq(s, 1, Len(s) - 1)) ELSE s

\* faulty variant: only leading whitespace is removed
StripLeadingOnly(s) == LStrip(s)

Strip(s) == RStrip(LStrip(s))

KeyName(raw) == IF Strip(raw) = <<>> THEN Hidden ELSE Strip(raw)

AffectedVerts(fm, checked) ==
    UNION {FaceVerts[f] : f \in {g \in Faces : fm[g] \in checked}}

RECURSIVE SumCos(_, _, _)
SumCos(order, orig, acc) ==
    IF order = <<>> THEN acc
    ELSE SumCos(Tail(order), orig, FAdd(acc, orig[Head(order)]))

Center(mode, order, orig) ==
    IF mode = "CENTROID"
    THEN FDiv(SumCos(order, orig, 0), Len(order))
    ELSE 0

\* faulty variant: the vertex is scaled about the origin whatever the center
ShrunkCoAboutOrigin(o, center, factor) == FMul(o, factor)

ShrunkCo(o, center, factor) == FAdd(center, FMul(FSub(o, center), factor))

ShrunkCos(orig, affected, center, factor) ==
    [i \in Verts |-> IF i \in affected THEN ShrunkCo(orig[i], center, factor)
                     ELSE orig[i]]

\* obj.shape_key_add(name, from_mix=False): a key block holding the live
\* coordinates, with value 0.0
ShapeKeyAdd(keys, name, live) ==
    Append(keys, [name |-> name, data |-> live, value |-> 0])

\* faulty variant: the shrunk coordinates are never written to the mesh
ApplyShrunkSkipped(live, shrunk) == live

\* faulty variant: the original coordinates are never written back
RevertCosSkipped(live, orig) == live

\* the loops "for i, v in enumerate(obj.data.vertices): v.co = ..."
ApplyShrunk(live, shrunk) == shrunk

RevertCos(live, orig) == orig

\* ------------------------------------------------------------------------
\* Initial states
\* ------------------------------------------------------------------------
\* a shape key the object may already carry
PreExisting == [name |-> <<"K">>, data |-> [i \in Verts |-> 1], value |-> 0]

InitCommon ==
    /\ vrm_hide_materials = <<>>
    /\ op = "none"
    /\ result = "NONE"
    /\ report = NoReport
    /\ frame = NoFrame

\* any slot list, with or without a shape key; one vertex far from the others
Init ==
    /\ materials \in SlotLists
    /\ face_mat \in {<<0, 1>>, <<1, 1>>}
    /\ co = [i \in Verts |-> IF i = 1 THEN -1 ELSE Big]
    /\ shape_keys \in {<<>>, <<PreExisting>>}
    /\ InitCommon

\* two materials, no shape key, any vertex coordinates and face assignment
InitGeom ==
    /\ materials = <<1, 2>>
    /\ face_mat \in [Faces -> MatIndex]
    /\ co \in [Verts -> PosVals]
    /\ shape_keys = <<>>
    /\ InitCommon

\* ------------------------------------------------------------------------
\* SyncMaterialsOperator.execute
\* ------------------------------------------------------------------------
SyncExecute(obj) ==
    IF NotMesh(obj)
    THEN /\ op' = "sync"
         /\ result' = "CANCELLED"
         /\ report' = Error(MsgSelectMesh)
         /\ frame' = [obj |-> obj]
         /\ UNCHANGED <<materials, face_mat, co, shape_keys, vrm_hide_materials>>
    ELSE /\ vrm_hide_materials' = sync_material_list(vrm_hide_materials, materials)
         /\ op' = "sync"
         /\ result' = "FINISHED"
         /\ report' = Info(MsgUpdated, Len(vrm_hide_materials'))
         /\ frame' = [obj |-> obj]
         /\ UNCHANGED <<materials, face_mat, co, shape_keys>>

SyncMaterials == \E obj \in ObjKinds : SyncExecute(obj)

\* ------------------------------------------------------------------------
\* CreateHideOperator.execute
\* ------------------------------------------------------------------------
Cancel(msg, fr) ==
    /\ op' = "create"
    /\ result' = "CANCELLED"
    /\ report' = Error(msg)
    /\ frame' = fr
    /\ UNCHANGED <<materials, face_mat, co, shape_keys, vrm_hide_materials>>

CreateExecute(obj, raw, factor, center_mode) ==
    IF NotMesh(obj) THEN Cancel(MsgSelectMesh, [obj |-> obj])
    ELSE IF HasShapeKeys(shape_keys) THEN Cancel(MsgHasKeys, [obj |-> obj])
    ELSE
    LET checked_indices == CheckedIndices(vrm_hide_materials) IN
    IF checked_indices = {}
    THEN Cancel(MsgNoMaterials, [obj |-> obj, checked_indices |-> checked_indices])
    ELSE
    LET key_name == KeyName(raw)
        affected_verts == AffectedVerts(face_mat, checked_indices)
    IN
    IF affected_verts = {}
    THEN Cancel(MsgNoVertices, [obj |-> obj, checked_indices |-> checked_indices,
                                affected_verts |-> affected_verts])
    ELSE
    \E order \in Orders(affected_verts) :
    LET orig_cos == co
        center == Center(center_mode, order, orig_cos)
        shrunk_cos == ShrunkCos(orig_cos, affected_verts, center, factor)
        keys1 == ShapeKeyAdd(shape_keys, Basis, co)
        co1 == ApplyShrunk(co, shrunk_cos)
        keys2 == ShapeKeyAdd(keys1, key_name, co1)
        co2 == RevertCos(co1, orig_cos)
    IN
    /\ shape_keys' = keys2
    /\ co' = co2
    /\ op' = "create"
    /\ result' = "FINISHED"
    /\ report' = Info(MsgCreated, key_name)
    /\ frame' = [obj |-> obj, checked_indices |-> checked_indices,
                 hide_shape_key_name |-> raw, key_name |-> key_name,
                 factor |-> factor, center_mode |-> center_mode,
                 affected_verts |-> affected_verts, orig_cos |-> orig_cos,
                 center |-> center, shrunk_cos |-> shrunk_cos]
    /\ UNCHANGED <<materials, face_mat, vrm_hide_materials>>

\* the scene properties at the values register() gives them, except the factor:
\* 0.01 is replaced by 1/2
CreateHideDefaults ==
    \E obj \in ObjKinds :
        CreateExecute(obj, Hidden, [num |-> 1, den |-> 2], "CENTROID")

\* any scene properties
CreateHideShapeKey ==
    \E obj \in ObjKinds, raw \in NameInputs, factor \in Factors,
       center_mode \in CenterModes :
        CreateExecute(obj, raw, factor, center_mode)

\* ------------------------------------------------------------------------
\* The user and the host between two operator runs
\* ------------------------------------------------------------------------
Idle ==
    /\ op' = "none"
    /\ result' = "NONE"
    /\ report' = NoReport
    /\ frame' = NoFrame

\* the checkbox row.prop(item, "use_hide") of the panel
ToggleUseHide ==
    \E i \in 1 .. Len(vrm_hide_materials) :
        /\ vrm_hide_materials' =
             [vrm_hide_materials EXCEPT ![i].use_hide = ~vrm_hide_materials[i].use_hide]
        /\ Idle
        /\ UNCHANGED <<materials, face_mat, co, shape_keys>>

\* slots added, removed, emptied, reassigned or reordered in the host
EditMaterialSlots ==
    \E ms \in SlotLists :
        /\ ms # materials
        /\ materials' = ms
        /\ Idle
        /\ UNCHANGED <<face_mat, co, shape_keys, vrm_hide_materials>>

\* the operators with the default scene properties, on a mesh whose slots the
\* user edits
Next == SyncMaterials \/ CreateHideDefaults \/ ToggleUseHide \/ EditMaterialSlots

Spec == Init /\ [][Next]_vars

\* the operators with any scene properties, on a mesh whose slots stay as they are
NextGeom == SyncMaterials \/ CreateHideShapeKey \/ ToggleUseHide

SpecGeom == InitGeom /\ [][NextGeom]_vars

\* ========================================================================
\* Properties
\* ========================================================================
Sel == vrm_hide_materials
IsMeshCreate == op' = "create" /\ frame'.obj = "MESH"
Finished == op = "create" /\ result = "FINISHED"
ModelState == <<materials, face_mat, co, shape_keys, vrm_hide_materials>>

\* entries of the collection that are checked and hold a material (1-based)
SelChecked == {i \in DOMAIN Sel : Sel[i].use_hide /\ Sel[i].material # NoMat}
\* some face uses a slot index at which a checked entry stands
SomeFaceChecked == \E f \in Faces : \E i \in SelChecked : face_mat[f] = i - 1

\* C1: after CreateHideOperator.execute returns, finished or cancelled, every live
\* vertex coordinate is the one the mesh had when the operator was entered.
C1_LiveRestored == [][op' = "create" => co' = co]_vars

C1_Witness ==
    /\ Finished
    /\ frame.shrunk_cos # frame.orig_cos
    /\ co = frame.orig_cos

\* C2: every cancelled run of either operator reports an error and leaves the shape
\* keys, the live coordinates and the selector as they were; every failing condition
\* cancels the run; in particular create on a mesh holding one shape key is cancelled
\* with the existing-shape-keys error.
C2_FailuresChangeNothing ==
    [][/\ (op' \in {"sync", "create"} /\ result' = "CANCELLED")
            => (report'.type = "ERROR" /\ UNCHANGED ModelState)
       /\ (op' = "sync" /\ frame'.obj # "MESH") => result' = "CANCELLED"
       /\ (op' = "create" /\ (frame'.obj # "MESH" \/ Len(shape_keys) > 0
                              \/ SelChecked = {} \/ ~SomeFaceChecked))
            => result' = "CANCELLED"
       /\ (IsMeshCreate /\ Len(shape_keys) = 1)
            => (report' = Error(MsgHasKeys) /\ result' = "CANCELLED")
      ]_vars

C2_Witness ==
    /\ op = "create" /\ result = "CANCELLED"
    /\ report = Error(MsgHasKeys)
    /\ shape_keys = <<PreExisting>>

\* the material in the slot a face points at
SlotMaterial(f) ==
    IF face_mat[f] + 1 \in DOMAIN materials THEN materials[face_mat[f] + 1] ELSE NoMat
\* the vertices of the faces whose slot holds a material checked in the selector
VertsOfCheckedMaterials ==
    UNION {FaceVerts[f] : f \in {g \in Faces :
              /\ SlotMaterial(g) # NoMat
              /\ \E i \in DOMAIN Sel : Sel[i].use_hide /\ Sel[i].material = SlotMaterial(g)}}

\* C3: when create runs right after a finished sync, the affected vertices are
\* exactly the vertices of the faces whose slot holds a checked material, and every
\* other vertex keeps its coordinate in the target key.
C3_AffectedAreCheckedMaterials ==
    [][(op = "sync" /\ result = "FINISHED" /\ IsMeshCreate /\ Len(shape_keys) = 0)
         => /\ (VertsOfCheckedMaterials # {}) => result' = "FINISHED"
            /\ result' = "FINISHED" =>
                 /\ frame'.affected_verts = VertsOfCheckedMaterials
                 /\ \A i \in Verts \ VertsOfCheckedMaterials :
                        shape_keys'[2].data[i] = co[i]
      ]_vars

\* C4: a finished create on a mesh without shape keys leaves exactly two keys:
\* "Basis" with the coordinates at entry, then the target with the shrunk
\* coordinates and value 0.0.
C4_TwoKeys ==
    [][(op' = "create" /\ result' = "FINISHED")
         => /\ Len(shape_keys) = 0
            /\ Len(shape_keys') = 2
            /\ shape_keys'[1].name = Basis
            /\ shape_keys'[1].data = co
            /\ shape_keys'[2].name = frame'.key_name
            /\ shape_keys'[2].data = frame'.shrunk_cos
            /\ shape_keys'[2].value = 0
      ]_vars

C4_Witness ==
    /\ Finished
    /\ Len(shape_keys) = 2
    /\ shape_keys[1].data = co
    /\ shape_keys[2].data # shape_keys[1].data

One == [num |-> 1, den |-> 1]
Zero == [num |-> 0, den |-> 1]

\* the mean of the affected coordinates, summed in some order
IsMean(c, aff, orig) ==
    \E order \in Orders(aff) : c = FDiv(SumCos(order, orig, 0), Cardinality(aff))

\* what C5 says of every run, whatever the factor
C5_Formula(f) ==
    /\ \A i \in Verts \ f.affected_verts : f.shrunk_cos[i] = f.orig_cos[i]
    /\ \A i \in f.affected_verts :
          f.shrunk_cos[i] =
             FAdd(f.center, FMul(FSub(f.orig_cos[i], f.center), f.factor))
    /\ f.center_mode = "CENTROID" => IsMean(f.center, f.affected_verts, f.orig_cos)
    /\ f.center_mode = "ORIGIN" => f.center = 0
    /\ f.factor = Zero => \A i \in f.affected_verts : f.shrunk_cos[i] = f.center

\* C5 as stated: unaffected vertices keep their coordinate, affected ones are at
\* Center + (Original - Center) * factor, Center is the mean of the affected
\* originals (centroid) or zero (origin); at factor 1 every vertex keeps its
\* original coordinate and at factor 0 every affected vertex is at Center.
C5_AsStated ==
    Finished =>
        /\ C5_Formula(frame)
        /\ frame.factor = One => frame.shrunk_cos = frame.orig_cos

\* C5 amended: as stated, except that at factor 1 an affected vertex keeps its
\* original coordinate exactly when the center is the origin or Original - Center
\* is computed without rounding.
C5_Amended ==
    Finished =>
        /\ C5_Formula(frame)
        /\ frame.factor = One =>
             \A i \in Verts :
                (\/ i \notin frame.affected_verts
                 \/ frame.center_mode = "ORIGIN"
                 \/ FSub(frame.orig_cos[i], frame.center)
                      = frame.orig_cos[i] - frame.center)
                  => frame.shrunk_cos[i] = frame.orig_cos[i]

C5_Witness ==
    /\ Finished
    /\ frame.factor = One
    /\ frame.center_mode = "CENTROID"
    /\ \E i \in frame.affected_verts : frame.shrunk_cos[i] # frame.orig_cos[i]
    /\ \E i \in frame.affected_verts : frame.shrunk_cos[i] = frame.orig_cos[i]

\* sel holds, in slot order, the non-null materials of mats: what a sync of mats
\* installs, whatever the flags.  A selector that fails this differs from the slot
\* list in size or in the material at some index.
MatchesSlots(sel, mats) ==
    \E idx \in [DOMAIN sel -> DOMAIN mats] :
        /\ \A j, k \in DOMAIN sel : j < k => idx[j] < idx[k]
        /\ {idx[k] : k \in DOMAIN sel} = {i \in DOMAIN mats : mats[i] # NoMat}
        /\ \A k \in DOMAIN sel : sel[k].material = mats[idx[k]]

\* C6: create run on a mesh whose slot list was changed since the selector was
\* synced, so that the selector no longer matches it, is cancelled and adds no
\* shape key.
C6_StaleSelectorRejected ==
    [][(IsMeshCreate /\ ~MatchesSlots(Sel, materials))
         => (result' = "CANCELLED" /\ shape_keys' = shape_keys)]_vars

\* sel lists the non-null materials of mats in slot order, all checked
IsSyncOf(sel, mats) ==
    /\ MatchesSlots(sel, mats)
    /\ \A k \in DOMAIN sel : sel[k].use_hide

\* C7: a finished sync leaves one checked entry per non-null slot material, in slot
\* order, whatever the selector held before; a second sync right after it leaves
\* the selector as it is.
C7_SyncReplaces ==
    [][/\ (op' = "sync" /\ result' = "FINISHED") => IsSyncOf(Sel', materials)
       /\ (op = "sync" /\ result = "FINISHED" /\ op' = "sync" /\ result' = "FINISHED")
            => Sel' = Sel
      ]_vars

C7_Witness ==
    /\ op = "sync" /\ result = "FINISHED"
    /\ materials = <<2, NoMat>> \/ materials = <<2, 1>>
    /\ Sel # <<>> /\ Sel[1].material = 2

AllSpace(s) == \A i \in DOMAIN s : s[i] = " "
Trimmed(s) ==
    LET ns == {i \in DOMAIN s : s[i] # " "}
        lo == CHOOSE i \in ns : \A j \in ns : i <= j
        hi == CHOOSE i \in ns : \A j \in ns : j <= i
    IN  SubSeq(s, lo, hi)

\* C8: after a finished create the first key is named "Basis" and the second
\* "Hidden" when the configured name is empty or all whitespace, and the configured
\* name without its leading and trailing whitespace otherwise.
C8_KeyNames ==
    Finished =>
        /\ shape_keys[1].name = Basis
        /\ shape_keys[2].name =
             IF AllSpace(frame.hide_shape_key_name) THEN Hidden
             ELSE Trimmed(frame.hide_shape_key_name)

C8_Witness ==
    /\ Finished
    /\ frame.hide_shape_key_name = <<" ", "a", " ", "b", " ">>
    /\ shape_keys[2].name = <<"a", " ", "b">>

\* C9: on an object that starts without shape keys the key count is always 0 or 2,
\* keys once created never change, and every create on the mesh after the first
\* finished one is cancelled with the existing-shape-keys error.
C9_CreatedOnce ==
    [][/\ Len(shape_keys') \in {0, 2}
       /\ Len(shape_keys) > 0 => shape_keys' = shape_keys
       /\ (IsMeshCreate /\ Len(shape_keys) > 0)
            => (result' = "CANCELLED" /\ report' = Error(MsgHasKeys))
      ]_vars

C9_Witness ==
    /\ op = "create" /\ result = "CANCELLED"
    /\ report = Error(MsgHasKeys)
    /\ Len(shape_keys) = 2
    /\ SelChecked # {}

\* C10: create reports the first violated precondition only, in the order
\* not a mesh, existing shape keys, no checked entry, no affected vertex, and
\* finishes when none is violated.
C10_FirstViolated ==
    [][op' = "create" =>
         report'.msg =
            IF frame'.obj # "MESH" THEN MsgSelectMesh
            ELSE IF Len(shape_keys) > 0 THEN MsgHasKeys
            ELSE IF SelChecked = {} THEN MsgNoMaterials
            ELSE IF ~SomeFaceChecked THEN MsgNoVertices
            ELSE MsgCreated
      ]_vars

C10_Witness ==
    /\ op = "create"
    /\ report = Error(MsgHasKeys)
    /\ Sel # <<>>
    /\ SelChecked = {}
====
